---------------------------- MODULE Spec2Model ----------------------------
(***************************************************************************)
(* Model of the two programs of the repository:                            *)
(*   One.py  - the page pipeline   (validate, fetch, parse, normalize,     *)
(*             assemble) of One.Worker.do_work;                            *)
(*   Two.py  - the financial pipeline (ticker, monthly rate, daily rate,   *)
(*             compose) of Two.Worker.do_work.                             *)
(* Strings are sequences of one-character strings, so that the regular     *)
(* expression, urlsplit, urljoin, strip, strftime and float are computed   *)
(* character by character as the code (and the library calls it makes)     *)
(* computes them.                                                          *)
(***************************************************************************)
EXTENDS Integers, Sequences, FiniteSets, TLC

None == "None"

(***************************************************************************)
(* Characters and small string helpers.                                    *)
(***************************************************************************)
LowerSeq == <<"a","b","c","d","e","f","g","h","i","j","k","l","m",
              "n","o","p","q","r","s","t","u","v","w","x","y","z">>
UpperSeq == <<"A","B","C","D","E","F","G","H","I","J","K","L","M",
              "N","O","P","Q","R","S","T","U","V","W","X","Y","Z">>
DigitSeq == <<"0","1","2","3","4","5","6","7","8","9">>

Range(f) == {f[i] : i \in DOMAIN f}
LowerChars == Range(LowerSeq)
UpperChars == Range(UpperSeq)
DigitChars == Range(DigitSeq)
SpaceChars == {" ", "\t", "\n", "\r"}

\* str.lower() of one character
ToLower(c) ==
    IF c \in UpperChars
    THEN LowerSeq[CHOOSE i \in DOMAIN UpperSeq : UpperSeq[i] = c]
    ELSE c

LowerStr(s) == [i \in DOMAIN s |-> ToLower(s[i])]

Min(a, b) == IF a < b THEN a ELSE b

\* s[p:] and s[:p-1] with 1-based p
From(s, p) == SubSeq(s, p, Len(s))
Upto(s, p) == SubSeq(s, 1, p)

\* the string made of n copies of the string w
Rep(w, n) == [i \in 1..(n * Len(w)) |-> w[((i - 1) % Len(w)) + 1]]

\* position of the first character of s, at or after p, that is in set cs;
\* Len(s) + 1 when there is none
FirstIn(s, p, cs) ==
    IF \E i \in p..Len(s) : s[i] \in cs
    THEN CHOOSE i \in p..Len(s) : s[i] \in cs /\ \A j \in p..(i - 1) : s[j] \notin cs
    ELSE Len(s) + 1

\* Python's  needle in haystack  for strings
Contains(hay, needle) ==
    \E i \in 0..(Len(hay) - Len(needle)) :
        \A k \in 1..Len(needle) : hay[i + k] = needle[k]

\* str.strip(): leading and trailing whitespace removed
Strip(s) ==
    IF \A i \in DOMAIN s : s[i] \in SpaceChars
    THEN <<>>
    ELSE LET a == CHOOSE i \in DOMAIN s :
                      s[i] \notin SpaceChars /\ \A j \in 1..(i - 1) : s[j] \in SpaceChars
             b == CHOOSE i \in DOMAIN s :
                      s[i] \notin SpaceChars /\ \A j \in (i + 1)..Len(s) : s[j] \in SpaceChars
         IN  SubSeq(s, a, b)

(***************************************************************************)
(* One.py: URL_PATTERN, matched with re.match and re.IGNORECASE.           *)
(***************************************************************************)
S_http      == <<"h","t","t","p">>
S_https     == <<"h","t","t","p","s">>
S_sep       == <<":","/","/">>
S_localhost == <<"l","o","c","a","l","h","o","s","t">>

\* the quantifier bounds written in the pattern
AuthMax    == 255
DomainMax  == 253
LabelInner == 61
TldMax     == 63
PortDigits == 5

IsWordChar(c)  == c \in LowerChars \cup UpperChars \cup DigitChars \cup {"_"}   \* \w
IsAlnumChar(c) == c \in LowerChars \cup UpperChars \cup DigitChars             \* [a-z0-9], IGNORECASE
IsLabelChar(c) == IsAlnumChar(c) \/ c = "-"                                     \* [a-z0-9-]
IsNonSpace(c)  == c \notin SpaceChars                                           \* \S
IsDot(c)       == c # "\n"                                                      \* .

\* a literal of the pattern matches s at position p (case-insensitively)
MatchLit(s, p, lit) ==
    /\ p + Len(lit) - 1 <= Len(s)
    /\ \A i \in 1..Len(lit) : ToLower(s[p + i - 1]) = lit[i]

\* $ : at the end of the string, or just before a final newline
AtEnd(s, p) == p = Len(s) + 1 \/ (p = Len(s) /\ s[p] = "\n")

\* (?:^https?://) : the position after the scheme, 0 when it does not match
SchemeEnd(s) ==
    IF MatchLit(s, 1, S_http \o S_sep) THEN Len(S_http \o S_sep) + 1
    ELSE IF MatchLit(s, 1, S_https \o S_sep) THEN Len(S_https \o S_sep) + 1
    ELSE 0

\* (?:(\w{1,255}):(.{1,255})@)? : the positions at which the host may start
\* when the scheme ended at p (p itself: the group is optional)
AuthEnds(s, p) ==
    {p} \cup
    { j + 1 : j \in
        { j \in (p + 3)..Len(s) :
            /\ s[j] = "@"
            /\ \E i \in (p + 1)..(j - 2) :
                  /\ s[i] = ":"
                  /\ i - p <= AuthMax
                  /\ (j - 1) - i <= AuthMax
                  /\ \A k \in p..(i - 1) : IsWordChar(s[k])
                  /\ \A k \in (i + 1)..(j - 1) : IsDot(s[k]) } }

\* (?=\S{0,253}(?:$|:)) at position q
Lookahead(s, q) ==
    \E k \in 0..DomainMax :
        /\ q + k - 1 <= Len(s)
        /\ \A i \in q..(q + k - 1) : IsNonSpace(s[i])
        /\ (AtEnd(s, q + k) \/ (q + k <= Len(s) /\ s[q + k] = ":"))

\* [a-z0-9](?:[a-z0-9-]{0,61}[a-z0-9])? matches the whole of l
IsLabel(l) ==
    /\ Len(l) >= 1
    /\ Len(l) <= LabelInner + 2
    /\ IsAlnumChar(l[1])
    /\ IsAlnumChar(l[Len(l)])
    /\ \A i \in DOMAIN l : IsLabelChar(l[i])

\* [a-z0-9]{1,63} matches the whole of l
IsTld(l) ==
    /\ Len(l) >= 1
    /\ Len(l) <= TldMax
    /\ \A i \in DOMAIN l : IsAlnumChar(l[i])

\* ((?:label\.)+tld) matches the whole of h: h is cut at its dots, every piece
\* before a dot is a label and the piece after the last dot is the tld
IsLabels(h) ==
    LET dots == {i \in DOMAIN h : h[i] = "."}
        prev(d) == IF \E e \in dots : e < d
                   THEN CHOOSE e \in dots : e < d /\ \A f \in dots : f < d => f <= e
                   ELSE 0
    IN  /\ dots # {}
        /\ \A d \in dots : IsLabel(SubSeq(h, prev(d) + 1, d - 1))
        /\ IsTld(SubSeq(h, prev(Len(h) + 1) + 1, Len(h)))

\* (?:/?|[/?]\S+)$ at position p
TailMatch(s, p) ==
    \/ AtEnd(s, p)
    \/ (p <= Len(s) /\ s[p] = "/" /\ AtEnd(s, p + 1))
    \/ /\ p <= Len(s)
       /\ s[p] \in {"/", "?"}
       /\ \E e \in (p + 2)..(Len(s) + 1) :
             /\ AtEnd(s, e)
             /\ \A i \in (p + 1)..(e - 1) : IsNonSpace(s[i])

\* (:\d{1,5})? followed by the tail, at position p
PortTailMatch(s, p) ==
    \/ TailMatch(s, p)
    \/ /\ p <= Len(s)
       /\ s[p] = ":"
       /\ \E d \in 1..PortDigits :
             /\ p + d <= Len(s)
             /\ \A i \in (p + 1)..(p + d) : s[i] \in DigitChars
             /\ TailMatch(s, p + d + 1)

\* the host alternative at position q: the guarded domain, or localhost
HostMatch(s, q) ==
    \/ /\ Lookahead(s, q)
       /\ \E e \in (q + 1)..(Len(s) + 1) :
             /\ PortTailMatch(s, e)
             /\ IsLabels(SubSeq(s, q, e - 1))
    \/ /\ MatchLit(s, q, S_localhost)
       /\ PortTailMatch(s, q + Len(S_localhost))

URL_PATTERN(s) ==
    /\ SchemeEnd(s) # 0
    /\ \E q \in AuthEnds(s, SchemeEnd(s)) : HostMatch(s, q)

_is_valid_url(user_input) == URL_PATTERN(user_input)


(***************************************************************************)
(* urllib.parse as One.py calls it: urlsplit (lines 64, 115) and urljoin   *)
(* (line 117).  The strings the model feeds them hold no whitespace and no *)
(* ';', so the library's whitespace removal and its ;params split are the  *)
(* identity on them and are left out.                                      *)
(***************************************************************************)
SchemeChars == LowerChars \cup UpperChars \cup DigitChars \cup {"+", "-", "."}

\* the schemes of a validated page URL; both are in the library's
\* uses_relative and uses_netloc lists
UsesRelative == {<<>>, S_http, S_https}
UsesNetloc   == {<<>>, S_http, S_https}

\* str.split(sep) for a one-character separator
RECURSIVE SplitOn(_, _)
SplitOn(s, sep) ==
    LET d == FirstIn(s, 1, {sep})
    IN  IF d > Len(s) THEN <<s>>
        ELSE <<Upto(s, d - 1)>> \o SplitOn(From(s, d + 1), sep)

\* sep.join(parts)
RECURSIVE JoinWith(_, _)
JoinWith(parts, sep) ==
    IF parts = <<>> THEN <<>>
    ELSE IF Len(parts) = 1 THEN parts[1]
    ELSE parts[1] \o <<sep>> \o JoinWith(Tail(parts), sep)

\* urlsplit(url, scheme=default), written as the chain of its steps, each
\* step handing what it has cut off to the next.  ok = FALSE stands for the
\* ValueError ("Invalid IPv6 URL") raised for an unbalanced bracket in the
\* netloc.

\* the last step: url.split('?', 1) at q, the position of the first '?'
SplitResult(scheme, netloc, ok, u, fragment, q) ==
    [ok |-> ok, scheme |-> scheme, netloc |-> netloc,
     path |-> Upto(u, q - 1), query |-> From(u, q + 1), fragment |-> fragment]

\* url.split('#', 1) at h, the position of the first '#'
SplitFragment(scheme, netloc, ok, u, h) ==
    SplitResult(scheme, netloc, ok, Upto(u, h - 1), From(u, h + 1),
                FirstIn(Upto(u, h - 1), 1, {"?"}))

\* '[' in netloc and ']' not in netloc, or the other way round
BracketsUnbalanced(netloc) ==
    (\E k \in DOMAIN netloc : netloc[k] = "[")
        # (\E k \in DOMAIN netloc : netloc[k] = "]")

\* _splitnetloc(url, 2) at delim, the position of the first of '/?#'
SplitNetlocAt(scheme, u, delim) ==
    SplitFragment(scheme, SubSeq(u, 3, delim - 1),
                  ~BracketsUnbalanced(SubSeq(u, 3, delim - 1)),
                  From(u, delim), FirstIn(From(u, delim), 1, {"#"}))

\* if url[:2] == '//'
SplitNetloc(scheme, u) ==
    IF Len(u) >= 2 /\ u[1] = "/" /\ u[2] = "/"
    THEN SplitNetlocAt(scheme, u, FirstIn(u, 3, {"/", "?", "#"}))
    ELSE SplitFragment(scheme, <<>>, TRUE, u, FirstIn(u, 1, {"#"}))

\* i = url.find(':') and the test that url[:i] is a scheme
SplitScheme(url, default, i) ==
    IF /\ i <= Len(url)
       /\ i > 1
       /\ url[1] \in LowerChars \cup UpperChars
       /\ \A k \in 1..(i - 1) : url[k] \in SchemeChars
    THEN SplitNetloc(LowerStr(Upto(url, i - 1)), From(url, i + 1))
    ELSE SplitNetloc(default, url)

Urlsplit(url, default) == SplitScheme(url, default, FirstIn(url, 1, {":"}))

\* urlunsplit((scheme, netloc, url, query, fragment)), step by step
AddNetloc(scheme, netloc, path) ==
    IF \/ netloc # <<>>
       \/ /\ scheme # <<>>
          /\ scheme \in UsesNetloc
          /\ ~(Len(path) >= 2 /\ path[1] = "/" /\ path[2] = "/")
    THEN <<"/", "/">> \o netloc
           \o (IF path # <<>> /\ path[1] # "/" THEN <<"/">> ELSE <<>>) \o path
    ELSE path

AddScheme(scheme, u) == IF scheme # <<>> THEN scheme \o <<":">> \o u ELSE u
AddQuery(u, query) == IF query # <<>> THEN u \o <<"?">> \o query ELSE u
AddFragment(u, fragment) == IF fragment # <<>> THEN u \o <<"#">> \o fragment ELSE u

Urlunsplit(scheme, netloc, path, query, fragment) ==
    AddFragment(AddQuery(AddScheme(scheme, AddNetloc(scheme, netloc, path)), query),
                fragment)

\* the loop of urljoin over the segments: '..' pops, '.' is skipped
RECURSIVE ResolveSegs(_, _)
ResolveSegs(segs, acc) ==
    IF segs = <<>> THEN acc
    ELSE IF Head(segs) = <<".", ".">>
    THEN ResolveSegs(Tail(segs), IF acc = <<>> THEN acc ELSE Upto(acc, Len(acc) - 1))
    ELSE IF Head(segs) = <<".">>
    THEN ResolveSegs(Tail(segs), acc)
    ELSE ResolveSegs(Tail(segs), Append(acc, Head(segs)))

\* segments[1:-1] = filter(None, segments[1:-1])
FilterInner(segs) ==
    IF Len(segs) <= 2 THEN segs
    ELSE <<segs[1]>>
         \o SelectSeq(SubSeq(segs, 2, Len(segs) - 1), LAMBDA x : x # <<>>)
         \o <<segs[Len(segs)]>>

\* base_parts: bpath.split('/') without its last item unless that is ''
BaseParts(parts) ==
    IF parts[Len(parts)] # <<>> THEN Upto(parts, Len(parts) - 1) ELSE parts

\* resolved_path, with the '' appended when the last segment is '.' or '..'
ResolvedPath(segs) ==
    IF segs[Len(segs)] \in {<<".">>, <<".", ".">>}
    THEN Append(ResolveSegs(segs, <<>>), <<>>)
    ELSE ResolveSegs(segs, <<>>)

\* '/'.join(resolved_path) or '/'
JoinedOrSlash(joined) == IF joined = <<>> THEN <<"/">> ELSE joined

\* urljoin once base and url are parsed into b and r
JoinParsed(url, b, r) ==
    IF r.scheme # b.scheme \/ r.scheme \notin UsesRelative THEN url
    ELSE IF r.scheme \in UsesNetloc /\ r.netloc # <<>>
    THEN Urlunsplit(r.scheme, r.netloc, r.path, r.query, r.fragment)
    ELSE IF r.path = <<>>
    THEN Urlunsplit(r.scheme,
                    IF r.scheme \in UsesNetloc THEN b.netloc ELSE r.netloc,
                    b.path,
                    IF r.query = <<>> THEN b.query ELSE r.query,
                    r.fragment)
    ELSE Urlunsplit(r.scheme,
                    IF r.scheme \in UsesNetloc THEN b.netloc ELSE r.netloc,
                    JoinedOrSlash(JoinWith(ResolvedPath(
                        IF r.path[1] = "/" THEN SplitOn(r.path, "/")
                        ELSE FilterInner(BaseParts(SplitOn(b.path, "/"))
                                         \o SplitOn(r.path, "/"))), "/")),
                    r.query,
                    r.fragment)

\* the scheme urlparse(base, '') finds, the default of urlparse(url, bscheme)
BaseScheme(base) == Urlsplit(base, <<>>).scheme

\* urljoin(base, url) for a base that urlsplit accepts
Urljoin(base, url) ==
    IF base = <<>> THEN url
    ELSE IF url = <<>> THEN base
    ELSE JoinParsed(url, Urlsplit(base, <<>>), Urlsplit(url, BaseScheme(base)))

(***************************************************************************)
(* Two.py: the clock and the date window calculator.  A clock reading is   *)
(* an integer number of seconds since the epoch; a struct_time is a record *)
(* of its calendar fields.                                                 *)
(***************************************************************************)
TEN_DAYS_SECONDS == 60 * 60 * 24 * 10

SecondsPerDay == 60 * 60 * 24

\* floor division and modulus for a negative or positive dividend
FloorDiv(a, b) == IF a >= 0 THEN a \div b ELSE -((-a + b - 1) \div b)
FloorMod(a, b) == a - b * FloorDiv(a, b)

\* days since 1970-01-01 of a proleptic Gregorian date (y counts the year
\* from March, mp the month from March)
DaysFromEra(y, mp, d) ==
    FloorDiv(y, 400) * 146097
      + FloorMod(y, 400) * 365 + FloorMod(y, 400) \div 4 - FloorMod(y, 400) \div 100
      + (153 * mp + 2) \div 5 + d - 1 - 719468

DaysFromCivil(y, m, d) ==
    DaysFromEra(IF m <= 2 THEN y - 1 ELSE y, IF m > 2 THEN m - 3 ELSE m + 9, d)

\* the proleptic Gregorian date of a day number, step by step: doe is the
\* day of the 400-year era, yoe the year of the era, doy the day of the
\* year from March 1, mp the month from March
CivilMonth(era, yoe, doy, mp) ==
    [y |-> yoe + era * 400 + (IF mp < 10 THEN 0 ELSE 1),
     m |-> IF mp < 10 THEN mp + 3 ELSE mp - 9,
     d |-> doy - (153 * mp + 2) \div 5 + 1]

CivilDoy(era, yoe, doy) == CivilMonth(era, yoe, doy, (5 * doy + 2) \div 153)

CivilYoe(era, doe, yoe) ==
    CivilDoy(era, yoe, doe - (365 * yoe + yoe \div 4 - yoe \div 100))

CivilDoe(era, doe) ==
    CivilYoe(era, doe,
             (doe - doe \div 1460 + doe \div 36524 - doe \div 146096) \div 365)

CivilFromDays(z) ==
    CivilDoe(FloorDiv(z + 719468, 146097), FloorMod(z + 719468, 146097))

\* time.gmtime(t): the UTC calendar fields of the instant t (tm_isdst = 0)
StructTime(c, sod) ==
    [tm_year |-> c.y, tm_mon |-> c.m, tm_mday |-> c.d,
     tm_hour |-> sod \div 3600, tm_min |-> (sod % 3600) \div 60,
     tm_sec |-> sod % 60]

gmtime(t) ==
    StructTime(CivilFromDays(FloorDiv(t, SecondsPerDay)), FloorMod(t, SecondsPerDay))

\* time.mktime(tm): tm is read as LOCAL time; with tm_isdst = 0, as gmtime
\* returns it, it is read as local standard time, whose offset east of UTC
\* is utcoffset seconds
mktime(tm, utcoffset) ==
    DaysFromCivil(tm.tm_year, tm.tm_mon, tm.tm_mday) * SecondsPerDay
      + tm.tm_hour * 3600 + tm.tm_min * 60 + tm.tm_sec - utcoffset

\* str(n) for n >= 0
RECURSIVE IntStr(_)
IntStr(n) == IF n < 10 THEN <<DigitSeq[n + 1]>>
             ELSE IntStr(n \div 10) \o <<DigitSeq[(n % 10) + 1]>>

\* n formatted with at least w digits, zero padded (%02d, %Y, %m, %d)
ZeroPad(n, w) == Rep(<<"0">>, w - Len(IntStr(n))) \o IntStr(n)

\* strftime(DATE_FORMAT, tm) with DATE_FORMAT = "%Y-%m-%d"
strftime(tm) ==
    ZeroPad(tm.tm_year, 4) \o <<"-">> \o ZeroPad(tm.tm_mon, 2)
      \o <<"-">> \o ZeroPad(tm.tm_mday, 2)

\* _today() read at instant t
_today(t) == strftime(gmtime(t))

\* _ten_days_ago() read at instant t in a process whose local standard
\* time is utcoffset seconds east of UTC
_ten_days_ago(t, utcoffset) ==
    strftime(gmtime(mktime(gmtime(t), utcoffset) - TEN_DAYS_SECONDS))

\* _last_month() read at instant t
LastMonthOf(time_now) ==
    IF time_now.tm_mon > 1
    THEN IntStr(time_now.tm_year) \o <<"-">> \o ZeroPad(time_now.tm_mon - 1, 2)
    ELSE IntStr(time_now.tm_year - 1) \o <<"-", "1", "2">>

_last_month(t) == LastMonthOf(gmtime(t))

(***************************************************************************)
(* The state of a run.  prog says which program runs; pc is the position   *)
(* of do_work; the Worker attributes hold a neutral value until the code   *)
(* assigns them, and assigned is the set of attributes assigned so far.    *)
(***************************************************************************)
VARIABLES
    prog,               \* "One" (page pipeline) or "Two" (financial pipeline)
    pc,                 \* the stage do_work is about to run, or "done"
    raw_input,          \* One: the line input() returns
    url,                \* One: self.url
    url_components,     \* One: self.url_components
    response,           \* One: the response of requests.get in _get_page_source
    page_source,        \* One: self.page_source (the document of the body)
    title,              \* One: self.title
    stylesheets,        \* One: self.stylesheets
    image_urls,         \* One: self.image_urls
    images,             \* One: self.images
    output,             \* One: self.output
    assigned,           \* the Worker attributes assigned so far
    result,             \* how do_work ended: a returned tuple or an exception
    gets,               \* the GET requests issued, in order
    stages,             \* the stages started, in order
    now,                \* Two: the clock reading (seconds since the epoch, UTC)
    utcoffset,          \* Two: local standard time of the process, seconds east of UTC
    btc_eur_15min,      \* Two: self.btc_eur_15min
    eur_gbp_last_month, \* Two: self.eur_gbp_last_month
    eur_gbp_last_day,   \* Two: self.eur_gbp_last_day
    btc_gbp_15min,      \* Two: self.btc_gbp_15min
    ecb_call,           \* Two: the arguments of the last _get_ecb_data call
    ecb_response,       \* Two: the response of requests.get in that call
    printed             \* Two: the lines printed, in order

pageVars == <<raw_input, url, url_components, response, page_source, title,
              stylesheets, image_urls, images, output>>
finVars  == <<now, utcoffset, btc_eur_15min, eur_gbp_last_month,
              eur_gbp_last_day, btc_gbp_15min, ecb_call, ecb_response, printed>>
vars     == <<prog, pc, pageVars, assigned, result, gets, stages, finVars>>

NoResult       == [kind |-> "none",   msg |-> "", code |-> 0, exc |-> ""]
Returned(m, c) == [kind |-> "return", msg |-> m,  code |-> c, exc |-> ""]
Raised(e)      == [kind |-> "raise",  msg |-> "", code |-> 0, exc |-> e]

(***************************************************************************)
(* Exceptions.  IsSubclass is the part of the class hierarchy of requests, *)
(* lxml and the builtins that the handlers of the code test.               *)
(***************************************************************************)
ExcParent ==
    [e \in {"HTTPError", "ConnectionError", "Timeout"} |-> "RequestException"]

IsSubclass(e, cls) == e = cls \/ (e \in DOMAIN ExcParent /\ ExcParent[e] = cls)

\* Python's  a or b  on two classes: a class is truthy, so the result is a
PyOr(a, b) == IF a # None THEN a ELSE b

\* One.py line 78:  except HTTPError or RequestException
ExceptClause == PyOr("HTTPError", "RequestException")

\* One.py line 95:  except LxmlError
ParseExceptClause == "LxmlError"

\* Response.raise_for_status(): HTTPError for a 4xx or 5xx status only
RaisesForStatus(status) == 400 <= status /\ status < 600

(***************************************************************************)
(* One.py: the inputs and the network of the page pipeline.                *)
(***************************************************************************)
S_text_html == <<"t","e","x","t","/","h","t","m","l">>

\* string literals of the modelled inputs
HTTP_ == <<"h","t","t","p",":","/","/">>
AUTHUP == <<"u",":","p","@">>
AB == <<"a",".","b">>
PORT80 == <<":","8","0">>
PATHDP == <<"/","d","/","p">>
ABSUP == <<"H","T","T","P",":","/","/","h","/","x">>
BRACKET == <<"/","/","[","x">>
CT_HTML == <<"t","e","x","t","/","h","t","m","l",";"," ","c","h","a","r","s","e","t","=","u","t","f","-","8">>
CT_PDF == <<"a","p","p","l","i","c","a","t","i","o","n","/","p","d","f">>

InvalidUrlMsg == "Sorry, you entered an invalid or unsupported URL."
NotHtmlMsg    == "Sorry, your URL does not link to a valid HTML page."
JsonReport    == "json.dumps(self.output, indent=2)"

\* the largest number of img elements in a modelled page
MaxImages == 2

\* a host of exactly n >= 3 characters: labels "a." and a final label
LongHost(n) ==
    IF n % 2 = 1 THEN Rep(<<"a", ".">>, (n - 1) \div 2) \o <<"b">>
    ELSE Rep(<<"a", ".">>, (n - 2) \div 2) \o <<"b", "c">>

GuardInputs ==
    { HTTP_ \o AB \o <<"/">> \o Rep(<<"a">>, k) :
          k \in {DomainMax - Len(AB) - 1, DomainMax - Len(AB)} }
    \cup { HTTP_ \o a \o LongHost(n) \o t :
          a \in {<<>>, AUTHUP}, n \in {DomainMax, DomainMax + 1},
          t \in {<<>>, PORT80 \o PATHDP} }
    \cup { HTTP_ \o AB \o PORT80 \o <<"/">> \o Rep(<<"a">>, DomainMax) }

\* the lines a user may type: scheme, basic auth, host, port and path/query
\* pieces put together, lines around the 253-character guard, a padded line
\* and a line that is no URL
UserInputs ==
    { s \o a \o h \o p \o t :
          s \in {HTTP_, <<"H","T","T","P","S",":","/","/">>, <<"f","t","p",":","/","/">>},
          a \in {<<>>, <<"u",":","[","@">>},
          h \in {AB, S_localhost, <<"-","a",".","b">>, <<"a","-",".","b">>, <<"a","-","b",".","c">>, <<"a","b">>},
          p \in {<<>>, PORT80, <<":","x">>},
          t \in {<<>>, PATHDP, <<"?","q">>, <<"/","x"," ","y">>} }
    \cup GuardInputs
    \cup { <<" ">> \o HTTP_ \o AB \o <<" ", "\n">>,
           <<"n","o","t"," ","a"," ","u","r","l">> }

\* the image references a page may hold
SampleRefs == {<<"i","m","g","/","a",".","p","n","g">>, <<"d","a","t","a",":","x">>, ABSUP, BRACKET}

\* the sequences over S of length at most n
SeqsUpTo(S, n) == UNION { [1..k -> S] : k \in 0..n }

\* the documents a response body may hold: empty (lxml raises ParserError,
\* an LxmlError), or a tree with its head/title texts, its number of
\* stylesheet links and the src of its body img elements in document order
Docs(refs) ==
    { [empty |-> TRUE, titles |-> <<>>, links |-> 0, imgs |-> <<>>] }
    \cup { [empty |-> FALSE, titles |-> tl[1], links |-> tl[2], imgs |-> im] :
             tl \in { <<(<<>>), 0>>, <<(<<"Example">>), 2>> },
             im \in SeqsUpTo(refs, MaxImages) }

NoDoc == [empty |-> TRUE, titles |-> <<>>, links |-> 0, imgs |-> <<>>]

\* what requests.get may do: raise a transport exception, or return a
\* response with a status, a content-type header (has_ctype FALSE: the header
\* is missing) and a body
TransportExcs == {"ConnectionError", "Timeout"}
Statuses      == {200, 300, 404, 500}
ContentTypes  == {CT_HTML, CT_PDF, <<"T","E","X","T","/","H","T","M","L">>}

NoResponse == [exc |-> "", status |-> 0, has_ctype |-> FALSE, ctype |-> <<>>]

Responses ==
    { [exc |-> e, status |-> 0, has_ctype |-> FALSE, ctype |-> <<>>] : e \in TransportExcs }
    \cup { [exc |-> "", status |-> st, has_ctype |-> FALSE, ctype |-> <<>>] : st \in Statuses }
    \cup { [exc |-> "", status |-> st, has_ctype |-> TRUE, ctype |-> ct] :
             st \in Statuses, ct \in ContentTypes }

NoComponents == [ok |-> FALSE, scheme |-> <<>>, netloc |-> <<>>, path |-> <<>>,
                 query |-> <<>>, fragment |-> <<>>]
NoOutput == [domain_name |-> <<>>, protocol |-> <<>>, title |-> "",
             image |-> <<>>, stylesheets |-> 0]


(***************************************************************************)
(* One.py: the stages of Worker.do_work, one action per stage method.      *)
(***************************************************************************)
\* a gate that stores the body whatever the content type is
ContentGateOpen(ctype) == TRUE

\* line 81: 'text/html' in response.headers['content-type']
ContentGate(ctype) == Contains(ctype, S_text_html)

\* a loop that joins every reference with the page URL
NeedsJoinAlways(components) == TRUE

\* line 116: not (components.scheme and components.netloc)
NeedsJoin(components) == ~(components.scheme # <<>> /\ components.netloc # <<>>)

\* line 115-117: one turn of the loop, on a reference urlsplit accepts
NormalizeOne(base, ref) ==
    IF NeedsJoin(Urlsplit(ref, <<>>)) THEN Urljoin(base, ref) ELSE ref

\* the first index in 1..n at which urlsplit raises ValueError, 0 if none
FirstRaise(refs, n) ==
    IF \E i \in 1..n : ~Urlsplit(refs[i], <<>>).ok
    THEN CHOOSE i \in 1..n :
            /\ ~Urlsplit(refs[i], <<>>).ok
            /\ \A j \in 1..(i - 1) : Urlsplit(refs[j], <<>>).ok
    ELSE 0

\* the list after the loop has run up to (not including) index bad
RewriteUpTo(base, refs, n, bad) ==
    [bad  |-> bad,
     urls |-> [i \in DOMAIN refs |->
                  IF i <= n /\ (bad = 0 \/ i < bad)
                  THEN NormalizeOne(base, refs[i]) ELSE refs[i]]]

\* lines 114-117: the loop of _ensure_img_abs_urls over range(self.images);
\* when urlsplit raises at index bad, the entries before it have been
\* rewritten in place and the others are left as they were
EnsureImgAbsUrls(base, refs, n) == RewriteUpTo(base, refs, n, FirstRaise(refs, n))

\* lines 54-67 and 138-139: _get_valid_user_url and the first test of do_work
GetValidUserUrl ==
    /\ prog = "One" /\ pc = "validate"
    /\ stages' = Append(stages, "validate")
    /\ \E user_input \in {Strip(raw_input)} :
           IF _is_valid_url(user_input)
           THEN /\ url' = user_input
                /\ IF Urlsplit(user_input, <<>>).ok
                   THEN /\ url_components' = Urlsplit(user_input, <<>>)
                        /\ assigned' = assigned \cup {"url", "url_components"}
                        /\ pc' = "fetch"
                        /\ result' = result
                   ELSE /\ url_components' = url_components
                        /\ assigned' = assigned \cup {"url"}
                        /\ pc' = "done"
                        /\ result' = Raised("ValueError")
           ELSE /\ pc' = "done"
                /\ result' = Returned(InvalidUrlMsg, 1)
                /\ UNCHANGED <<url, url_components, assigned>>
    /\ UNCHANGED <<prog, raw_input, response, page_source, title, stylesheets,
                   image_urls, images, output, gets, finVars>>

\* lines 69-85 and 141-142: _get_page_source and, when it returns False, the
\* return of do_work (the and of line 141 does not evaluate the parse)
GetPageSource ==
    /\ prog = "One" /\ pc = "fetch"
    /\ stages' = Append(stages, "fetch")
    /\ gets' = Append(gets, url)
    /\ \E r \in Responses, doc \in Docs(SampleRefs) :
          /\ response' = r
          /\ IF r.exc # ""
             THEN \* requests.get raised
                  /\ UNCHANGED <<page_source, assigned>>
                  /\ pc' = "done"
                  /\ result' = IF IsSubclass(r.exc, ExceptClause)
                               THEN Returned(NotHtmlMsg, 1) ELSE Raised(r.exc)
             ELSE IF RaisesForStatus(r.status)
             THEN \* raise_for_status raised HTTPError
                  /\ UNCHANGED <<page_source, assigned>>
                  /\ pc' = "done"
                  /\ result' = IF IsSubclass("HTTPError", ExceptClause)
                               THEN Returned(NotHtmlMsg, 1) ELSE Raised("HTTPError")
             ELSE IF ~r.has_ctype
             THEN \* response.headers['content-type'] raised KeyError
                  /\ UNCHANGED <<page_source, assigned>>
                  /\ pc' = "done"
                  /\ result' = Raised("KeyError")
             ELSE IF ContentGate(r.ctype)
             THEN /\ page_source' = doc
                  /\ assigned' = assigned \cup {"page_source"}
                  /\ pc' = "parse"
                  /\ result' = result
             ELSE /\ UNCHANGED <<page_source, assigned>>
                  /\ pc' = "done"
                  /\ result' = Returned(NotHtmlMsg, 1)
    /\ UNCHANGED <<prog, raw_input, url, url_components, title, stylesheets,
                   image_urls, images, output, finVars>>

\* lines 87-108 and 141-142: _parse_page_source
ParsePageSource ==
    /\ prog = "One" /\ pc = "parse"
    /\ stages' = Append(stages, "parse")
    /\ IF page_source.empty
       THEN \* html.fromstring raised ParserError, an LxmlError
            /\ pc' = "done"
            /\ result' = IF IsSubclass("LxmlError", ParseExceptClause)
                         THEN Returned(NotHtmlMsg, 1) ELSE Raised("LxmlError")
            /\ UNCHANGED <<title, stylesheets, image_urls, images, assigned>>
       ELSE /\ title' = IF Len(page_source.titles) # 0 THEN page_source.titles[1] ELSE ""
            /\ stylesheets' = page_source.links
            /\ image_urls' = page_source.imgs
            /\ images' = Len(page_source.imgs)
            /\ assigned' = assigned \cup {"title", "stylesheets", "image_urls", "images"}
            /\ pc' = "normalize"
            /\ result' = result
    /\ UNCHANGED <<prog, raw_input, url, url_components, response, page_source,
                   output, gets, finVars>>

\* lines 110-117 and 144: _ensure_img_abs_urls
EnsureImgAbsUrlsStage ==
    /\ prog = "One" /\ pc = "normalize"
    /\ stages' = Append(stages, "normalize")
    /\ \E e \in {EnsureImgAbsUrls(url, image_urls, images)} :
           /\ image_urls' = e.urls
           /\ IF e.bad = 0
              THEN pc' = "assemble" /\ result' = result
              ELSE pc' = "done" /\ result' = Raised("ValueError")
    /\ UNCHANGED <<prog, raw_input, url, url_components, response, page_source,
                   title, stylesheets, images, output, assigned, gets, finVars>>

\* lines 119-128 and 146-148: _generate_output and the return of do_work
GenerateOutput ==
    /\ prog = "One" /\ pc = "assemble"
    /\ stages' = Append(stages, "assemble")
    /\ output' = [domain_name |-> url_components.netloc,
                  protocol    |-> url_components.scheme,
                  title       |-> title,
                  image       |-> image_urls,
                  stylesheets |-> stylesheets]
    /\ assigned' = assigned \cup {"output"}
    /\ pc' = "done"
    /\ result' = Returned(JsonReport, 0)
    /\ UNCHANGED <<prog, raw_input, url, url_components, response, page_source,
                   title, stylesheets, image_urls, images, gets, finVars>>

NoCall == [frequency |-> <<>>, start |-> <<>>, end |-> <<>>]
NoEcbResponse == [exc |-> "", status |-> 0, xml |-> FALSE, values |-> <<>>]

FinIdle ==
    /\ now = 0 /\ utcoffset = 0
    /\ btc_eur_15min = [is_number |-> TRUE, v |-> 0]
    /\ eur_gbp_last_month = 0 /\ eur_gbp_last_day = 0
    /\ btc_gbp_15min = 0 /\ ecb_call = NoCall /\ ecb_response = NoEcbResponse
    /\ printed = <<>>

PageIdle ==
    /\ raw_input = <<>> /\ url = <<>> /\ url_components = NoComponents
    /\ response = NoResponse /\ page_source = NoDoc /\ title = ""
    /\ stylesheets = 0 /\ image_urls = <<>> /\ images = 0 /\ output = NoOutput

\* One.main: a fresh Worker, about to call do_work
InitPage ==
    /\ prog = "One" /\ pc = "validate"
    /\ raw_input \in UserInputs
    /\ url = <<>> /\ url_components = NoComponents
    /\ response = NoResponse /\ page_source = NoDoc /\ title = ""
    /\ stylesheets = 0 /\ image_urls = <<>> /\ images = 0 /\ output = NoOutput
    /\ assigned = {} /\ result = NoResult /\ gets = <<>> /\ stages = <<>>
    /\ FinIdle

NextPage ==
    \/ GetValidUserUrl
    \/ GetPageSource
    \/ ParsePageSource
    \/ EnsureImgAbsUrlsStage
    \/ GenerateOutput

SpecPage == InitPage /\ [][NextPage]_vars

(***************************************************************************)
(* The normalizer on its own: do_work just after _parse_page_source has    *)
(* returned True, for a page URL of NormBases and every list of at most    *)
(* MaxImages references of NormRefs found in the page.                     *)
(***************************************************************************)
NormBases == {<<"h","t","t","p",":","/","/","a",".","b">>, <<"h","t","t","p","s",":","/","/","a",".","b","/","d","/","p","?","q">>}

NormRefs ==
    { s \o n \o p : s \in {<<>>, <<"h","t","t","p",":">>, <<"d","a","t","a",":">>},
                    n \in {<<>>, <<"/","/","h">>},
                    p \in {<<>>, <<"a">>, <<".", ".">>, <<"/", "a">>, <<"a","/",".",".","/","b">>} }
    \cup {BRACKET, ABSUP, <<"h","t","t","p",":","/","/","h","?">>}

InitNorm ==
    /\ prog = "One" /\ pc = "normalize"
    /\ raw_input \in NormBases
    /\ url = raw_input
    /\ url_components = Urlsplit(raw_input, <<>>)
    /\ response = [exc |-> "", status |-> 200, has_ctype |-> TRUE, ctype |-> CT_HTML]
    /\ page_source \in { [empty |-> FALSE, titles |-> <<"Example">>, links |-> 0,
                          imgs |-> im] : im \in SeqsUpTo(NormRefs, MaxImages) }
    /\ title = "Example" /\ stylesheets = 0
    /\ image_urls = page_source.imgs /\ images = Len(page_source.imgs)
    /\ output = NoOutput
    /\ assigned = {"url", "url_components", "page_source", "title",
                   "stylesheets", "image_urls", "images"}
    /\ result = NoResult
    /\ gets = <<raw_input>>
    /\ stages = <<"validate", "fetch", "parse">>
    /\ FinIdle

NextNorm ==
    \/ EnsureImgAbsUrlsStage
    \/ GenerateOutput

SpecNorm == InitNorm /\ [][NextNorm]_vars


(***************************************************************************)
(* Two.py: the endpoints, the network and the stages of Worker.do_work.    *)
(* A rate is an integer number of hundredths; a ticker value is a record   *)
(* saying whether the JSON value is a number.                              *)
(***************************************************************************)
BITCOIN_TICKER   == <<"h","t","t","p","s",":","/","/","b","l","o","c","k","c","h","a","i","n",".","i","n","f","o","/","t","i","c","k","e","r">>
ECB_DATA_API     == <<"h","t","t","p","s",":","/","/","s","d","w","-","w","s","r","e","s","t",".","e","c","b",".","e","u","r","o","p","a",".","e","u","/","s","e","r","v","i","c","e","/","d","a","t","a","/">>
FREQUENCY_DAILY   == <<"D">>
FREQUENCY_MONTHLY == <<"M">>

\* ECB_EXR_GBP_EUR.format(frequency)
ECB_EXR_GBP_EUR(frequency) == <<"E","X","R","/">> \o frequency \o <<".","G","B","P",".","E","U","R",".","S","P","0","0",".","A">>

\* ECB_QUERY_PARAMS.format(start, end)
ECB_QUERY_PARAMS(start, end) ==
    <<"?","s","t","a","r","t","P","e","r","i","o","d","=">> \o start \o <<"&","e","n","d","P","e","r","i","o","d","=">> \o end \o <<"&","d","e","t","a","i","l","=","d","a","t","a","o","n","l","y">>

\* lines 88-89: the query URL of _get_ecb_data
QueryUrl(frequency, start, end) ==
    Urljoin(Urljoin(ECB_DATA_API, ECB_EXR_GBP_EUR(frequency)),
            ECB_QUERY_PARAMS(start, end))

\* the largest number of observations in a modelled rate series
MaxObs == 2

\* the clock readings and the local time zones of the modelled runs: the
\* hours around two midnights (2019-01-10 22:00 UTC, the month after a year
\* change, and 2019-07-27 22:00 UTC), in UTC, New York, Berlin and Kolkata
MaxClockSteps == 3
Epochs    == {1547157600, 1564264800}
Clocks    == { e + k * 3600 : e \in Epochs, k \in 0..MaxClockSteps }
UtcOffsets == {0, -18000, 3600, 19800}

\* the value attributes a series may hold
ObsValues == {<<"0",".","8","4">>, <<"0",".","8","6">>, <<"n","/","a">>}

\* the responses of the ticker: a transport exception, an error status, a
\* body that is not JSON, a JSON object without ["EUR"]["15m"], or one with
\* it, a number or (is_number FALSE) a JSON string
TickerResponses ==
    { [exc |-> e, status |-> 0, json |-> FALSE, has_key |-> FALSE,
       is_number |-> FALSE, value |-> 0] : e \in TransportExcs }
    \cup { [exc |-> "", status |-> 500, json |-> FALSE, has_key |-> FALSE,
            is_number |-> FALSE, value |-> 0],
           [exc |-> "", status |-> 200, json |-> FALSE, has_key |-> FALSE,
            is_number |-> FALSE, value |-> 0],
           [exc |-> "", status |-> 200, json |-> TRUE, has_key |-> FALSE,
            is_number |-> FALSE, value |-> 0],
           [exc |-> "", status |-> 200, json |-> TRUE, has_key |-> TRUE,
            is_number |-> FALSE, value |-> 0],
           [exc |-> "", status |-> 200, json |-> TRUE, has_key |-> TRUE,
            is_number |-> TRUE, value |-> 30000] }

\* the responses of the rate-series endpoint: a transport exception, an
\* error status, or a 200 with a body, XML (with its ObsValue value
\* attributes in document order) or not
EcbResponses ==
    { [exc |-> e, status |-> 0, xml |-> FALSE, values |-> <<>>] : e \in TransportExcs }
    \cup { [exc |-> "", status |-> 500, xml |-> FALSE, values |-> <<>>],
           [exc |-> "", status |-> 200, xml |-> FALSE, values |-> <<>>] }
    \cup { [exc |-> "", status |-> 200, xml |-> TRUE, values |-> vs] :
             vs \in SeqsUpTo(ObsValues, MaxObs) }

\* values[i] with Python's 0-based index i, negative counting from the
\* end: ok = FALSE stands for IndexError
PyIndex(values, i) ==
    IF i >= 0 /\ i < Len(values) THEN [ok |-> TRUE, v |-> values[i + 1]]
    ELSE IF i < 0 /\ i + Len(values) >= 0
    THEN [ok |-> TRUE, v |-> values[i + Len(values) + 1]]
    ELSE [ok |-> FALSE, v |-> <<>>]

\* the value of a digit character
DigitVal(c) == (CHOOSE i \in DOMAIN DigitSeq : DigitSeq[i] = c) - 1

\* float(s) for s of the form d.dd, in hundredths: ok = FALSE stands for
\* ValueError
Float(s) ==
    IF /\ Len(s) = 4 /\ s[2] = "."
       /\ s[1] \in DigitChars /\ s[3] \in DigitChars /\ s[4] \in DigitChars
    THEN [ok |-> TRUE, v |-> 100 * DigitVal(s[1]) + 10 * DigitVal(s[3]) + DigitVal(s[4])]
    ELSE [ok |-> FALSE, v |-> 0]

\* lines 116-120: _get_latest_ecb_rate on a body with the given values:
\* exc names the exception it raises, "" when it returns rate
LatestOf(picked) ==
    IF ~picked.ok THEN [exc |-> "IndexError", rate |-> 0]
    ELSE IF ~Float(picked.v).ok THEN [exc |-> "ValueError", rate |-> 0]
    ELSE [exc |-> "", rate |-> Float(picked.v).v]

_get_latest_ecb_rate(xml, values) ==
    IF ~xml THEN [exc |-> "XMLSyntaxError", rate |-> 0]
    ELSE LatestOf(PyIndex(values, Len(values) - 1))

\* lines 86-100 then _get_latest_ecb_rate: what one rate acquisition does
\* with the response r: exc names the exception raised, "" when it returns
AcquireRate(r) ==
    IF r.exc # "" THEN [exc |-> r.exc, rate |-> 0]
    ELSE IF RaisesForStatus(r.status) THEN [exc |-> "HTTPError", rate |-> 0]
    ELSE _get_latest_ecb_rate(r.xml, r.values)

\* lines 128-132: what _get_btc_eur_15min does with the response r
AcquireTicker(r) ==
    IF r.exc # "" THEN r.exc
    ELSE IF RaisesForStatus(r.status) THEN "HTTPError"
    ELSE IF ~r.json THEN "JSONDecodeError"
    ELSE IF ~r.has_key THEN "KeyError"
    ELSE ""

\* the lines of the report
Line(label, value) == [label |-> label, value |-> value]

\* a do_work that prints the line of a stage whether or not its call returned
PrintedAlways(lines, returned, line) == Append(lines, line)

\* do_work prints a line after the call of its stage has returned (lines
\* 162-163, 168-169, 174-175): a call that raises leaves the print unreached
PrintedAfter(lines, returned, line) ==
    IF returned THEN Append(lines, line) ELSE lines

\* lines 125-132 and 162-166: _get_btc_eur_15min and the first print
GetBtcEur15min ==
    /\ prog = "Two" /\ pc = "ticker"
    /\ stages' = Append(stages, "ticker")
    /\ gets' = Append(gets, BITCOIN_TICKER)
    /\ \E r \in TickerResponses :
          /\ printed' = PrintedAfter(printed, AcquireTicker(r) = "",
                                     Line("BTC_EUR", r.value))
          /\ IF AcquireTicker(r) # ""
             THEN /\ result' = Raised(AcquireTicker(r))
                  /\ pc' = "done"
                  /\ UNCHANGED <<btc_eur_15min, assigned>>
             ELSE /\ btc_eur_15min' = [is_number |-> r.is_number, v |-> r.value]
                  /\ assigned' = assigned \cup {"btc_eur_15min"}
                  /\ pc' = "monthly"
                  /\ result' = result
    /\ UNCHANGED <<prog, pageVars, now, utcoffset, eur_gbp_last_month,
                   eur_gbp_last_day, btc_gbp_15min, ecb_call, ecb_response>>

\* lines 134-140 and 168-172: _get_eur_gbp_last_month and the second print
GetEurGbpLastMonth ==
    /\ prog = "Two" /\ pc = "monthly"
    /\ stages' = Append(stages, "monthly")
    /\ ecb_call' = [frequency |-> FREQUENCY_MONTHLY,
                    start |-> _last_month(now), end |-> _last_month(now)]
    /\ gets' = Append(gets, QueryUrl(FREQUENCY_MONTHLY, _last_month(now), _last_month(now)))
    /\ \E r \in EcbResponses :
          /\ ecb_response' = r
          /\ printed' = PrintedAfter(printed, AcquireRate(r).exc = "",
                                     Line("EUR_GBP", AcquireRate(r).rate))
          /\ IF AcquireRate(r).exc # ""
             THEN /\ result' = Raised(AcquireRate(r).exc)
                  /\ pc' = "done"
                  /\ UNCHANGED <<eur_gbp_last_month, assigned>>
             ELSE /\ eur_gbp_last_month' = AcquireRate(r).rate
                  /\ assigned' = assigned \cup {"eur_gbp_last_month"}
                  /\ pc' = "daily"
                  /\ result' = result
    /\ UNCHANGED <<prog, pageVars, now, utcoffset, btc_eur_15min,
                   eur_gbp_last_day, btc_gbp_15min>>

\* lines 142-157 and 174-178: _get_btc_gbp_15min (which calls
\* _get_eur_gbp_last_daily), the third print and the return of do_work.
\* A ticker value that is not a number makes the product raise TypeError.
GetBtcGbp15min ==
    /\ prog = "Two" /\ pc = "daily"
    /\ stages' = Append(stages, "daily")
    /\ ecb_call' = [frequency |-> FREQUENCY_DAILY,
                    start |-> _ten_days_ago(now, utcoffset), end |-> _today(now)]
    /\ gets' = Append(gets, QueryUrl(FREQUENCY_DAILY,
                                     _ten_days_ago(now, utcoffset), _today(now)))
    /\ pc' = "done"
    /\ \E r \in EcbResponses :
          /\ ecb_response' = r
          /\ printed' = PrintedAfter(printed,
                            AcquireRate(r).exc = "" /\ btc_eur_15min.is_number,
                            Line("BTC_GBP", btc_eur_15min.v * AcquireRate(r).rate))
          /\ IF AcquireRate(r).exc # ""
             THEN /\ result' = Raised(AcquireRate(r).exc)
                  /\ UNCHANGED <<eur_gbp_last_day, btc_gbp_15min, assigned>>
             ELSE /\ eur_gbp_last_day' = AcquireRate(r).rate
                  /\ IF btc_eur_15min.is_number
                     THEN /\ btc_gbp_15min' = btc_eur_15min.v * AcquireRate(r).rate
                          /\ assigned' = assigned \cup {"eur_gbp_last_day", "btc_gbp_15min"}
                          /\ result' = Returned("None", 0)
                     ELSE /\ assigned' = assigned \cup {"eur_gbp_last_day"}
                          /\ result' = Raised("TypeError")
                          /\ UNCHANGED btc_gbp_15min
    /\ UNCHANGED <<prog, pageVars, now, utcoffset, btc_eur_15min, eur_gbp_last_month>>

\* Two.main: a fresh Worker, about to call do_work
InitFin ==
    /\ prog = "Two" /\ pc = "ticker"
    /\ PageIdle
    /\ assigned = {} /\ result = NoResult /\ gets = <<>> /\ stages = <<>>
    /\ now \in Clocks /\ utcoffset \in UtcOffsets
    /\ btc_eur_15min = [is_number |-> TRUE, v |-> 0]
    /\ eur_gbp_last_month = 0 /\ eur_gbp_last_day = 0
    /\ btc_gbp_15min = 0 /\ ecb_call = NoCall /\ ecb_response = NoEcbResponse
    /\ printed = <<>>

NextFin ==
    \/ GetBtcEur15min
    \/ GetEurGbpLastMonth
    \/ GetBtcGbp15min

SpecFin == InitFin /\ [][NextFin]_vars

\* either program is run
Init == InitPage \/ InitFin
Next == NextPage \/ NextFin
Spec == Init /\ [][Next]_vars

(***************************************************************************)
(* Properties of the page pipeline.                                        *)
(***************************************************************************)
PageStages == <<"validate", "fetch", "parse", "normalize", "assemble">>
Ran(stage) == stage \in Range(stages)
IsPrefixOf(s, t) == Len(s) <= Len(t) /\ s = SubSeq(t, 1, Len(s))
Is2xx(status) == 200 <= status /\ status <= 299

\* a reference with both a scheme and a host
IsAbsoluteUrl(u) ==
    /\ Urlsplit(u, <<>>).ok
    /\ Urlsplit(u, <<>>).scheme # <<>>
    /\ Urlsplit(u, <<>>).netloc # <<>>

\* the failures a page run can meet: an invalid URL, a transport failure, a
\* non-2xx status, a missing or non-HTML content type, a parser exception
ValidationFailed == ~_is_valid_url(Strip(raw_input))
FetchFailed ==
    /\ Ran("fetch")
    /\ \/ response.exc # ""
       \/ ~Is2xx(response.status)
       \/ ~response.has_ctype
       \/ ~Contains(response.ctype, S_text_html)
ParseFailed == Ran("parse") /\ page_source.empty
PageStageFailed == ValidationFailed \/ FetchFailed \/ ParseFailed

\* C1: a finished run of the page pipeline has returned to its caller (it did
\* not leave do_work through an exception), and when a stage failed the
\* value returned is a failure message with exit code 1
C1_EveryFailureIsTagged ==
    (prog = "One" /\ pc = "done") =>
        /\ result.kind = "return"
        /\ PageStageFailed =>
              /\ result.code = 1
              /\ result.msg \in {InvalidUrlMsg, NotHtmlMsg}

\* C3: the stages that have run are a prefix of validate, fetch, parse,
\* normalize, assemble; a finished run returns the report with exit code 0
\* exactly when validation, fetch and parse succeeded, and otherwise a
\* failure with exit code 1
C3_StagesInOrderReportIffSuccess ==
    prog = "One" =>
        /\ IsPrefixOf(stages, PageStages)
        /\ pc = "done" =>
              /\ (result = Returned(JsonReport, 0)) <=> ~PageStageFailed
              /\ PageStageFailed => (result.kind = "return" /\ result.code = 1)
        /\ result.kind # "none" => pc = "done"

\* the response came back with a content type that the gate refuses
GateRefuses(goodStatus) ==
    /\ Ran("fetch") /\ response.exc = "" /\ goodStatus
    /\ response.has_ctype /\ ~Contains(response.ctype, S_text_html)
\* the response came back with a content type that the gate lets through
GatePasses(goodStatus) ==
    /\ Ran("fetch") /\ response.exc = "" /\ goodStatus
    /\ response.has_ctype /\ Contains(response.ctype, S_text_html)
GateProperty(goodStatus) ==
    prog = "One" =>
        /\ GateRefuses(goodStatus) =>
              /\ "page_source" \notin assigned
              /\ ~Ran("parse")
              /\ pc = "done"
              /\ result = Returned(NotHtmlMsg, 1)
        /\ "page_source" \in assigned => GatePasses(goodStatus)
        /\ Ran("parse") => GatePasses(goodStatus)

C6_AllImagesAbsolute ==
    (prog = "One" /\ Ran("normalize") /\ result.kind # "raise") =>
        /\ \A i \in DOMAIN image_urls : IsAbsoluteUrl(image_urls[i])
        /\ "output" \in assigned =>
              \A i \in DOMAIN output.image : IsAbsoluteUrl(output.image[i])

\* C7: once the normalizer has run, image_urls has the length of the list
\* the parser produced, entry i is reference i itself or reference i
\* resolved against the page URL, and a reference that had a scheme and a
\* host is unchanged; when the normalizer has returned, normalizing its
\* result again changes nothing
C7_NormalizerIdempotentOrdered ==
    (prog = "One" /\ Ran("normalize")) =>
        /\ Len(image_urls) = Len(page_source.imgs)
        /\ \A i \in DOMAIN image_urls :
              /\ image_urls[i] \in {page_source.imgs[i], Urljoin(url, page_source.imgs[i])}
              /\ IsAbsoluteUrl(page_source.imgs[i]) => image_urls[i] = page_source.imgs[i]
        /\ result.kind # "raise" =>
              EnsureImgAbsUrls(url, image_urls, Len(image_urls))
                = [bad |-> 0, urls |-> image_urls]

C7_RewroteOneKeptOne ==
    /\ prog = "One" /\ pc = "assemble" /\ Ran("normalize")
    /\ Len(image_urls) = 2
    /\ image_urls[1] # page_source.imgs[1]
    /\ IsAbsoluteUrl(page_source.imgs[2])
    /\ image_urls[2] = page_source.imgs[2]

\* the grammar in which the 253-character limit bounds the host only
GrammarHost(s, q) ==
    \/ \E e \in (q + 1)..Min(Len(s) + 1, q + DomainMax) :
          /\ PortTailMatch(s, e)
          /\ IsLabels(SubSeq(s, q, e - 1))
    \/ /\ MatchLit(s, q, S_localhost)
       /\ PortTailMatch(s, q + Len(S_localhost))
GrammarAccepts(s) ==
    /\ SchemeEnd(s) # 0
    /\ \E q \in AuthEnds(s, SchemeEnd(s)) : GrammarHost(s, q)

\* the host of s has a label that starts or ends with a dash
HostEnd(s, q) ==
    IF \E i \in q..Len(s) : ~(IsLabelChar(s[i]) \/ s[i] = ".")
    THEN CHOOSE i \in q..Len(s) :
            /\ ~(IsLabelChar(s[i]) \/ s[i] = ".")
            /\ \A j \in q..(i - 1) : IsLabelChar(s[j]) \/ s[j] = "."
    ELSE Len(s) + 1
DashLabelIn(s, q, e) ==
    \E i \in q..(e - 1) :
        /\ s[i] = "-"
        /\ (i = q \/ s[i - 1] = "." \/ i = e - 1 \/ s[i + 1] = ".")
HasDashLabel(s) ==
    /\ SchemeEnd(s) # 0
    /\ \A q \in AuthEnds(s, SchemeEnd(s)) : DashLabelIn(s, q, HostEnd(s, q))

\* C8: once the validation stage has run, a line that matches the grammar
\* whose 253-character limit bounds the host only has not been rejected,
\* whatever its path and query are, and a line whose host has a label with a
\* leading or trailing dash has been rejected
C8_ValidatorAcceptsGrammar ==
    (prog = "One" /\ Ran("validate")) =>
        /\ GrammarAccepts(Strip(raw_input)) => result # Returned(InvalidUrlMsg, 1)
        /\ HasDashLabel(Strip(raw_input)) => result = Returned(InvalidUrlMsg, 1)

(***************************************************************************)
(* Properties of the financial pipeline.                                   *)
(***************************************************************************)
FinStages == <<"ticker", "monthly", "daily">>
FinLabels == <<"BTC_EUR", "EUR_GBP", "BTC_GBP">>
PrintedLabels == [i \in DOMAIN printed |-> printed[i].label]

\* the last call of _get_ecb_data got a well-formed series with no observation
EmptySeries ==
    /\ ecb_call # NoCall
    /\ ecb_response.exc = "" /\ ecb_response.status = 200
    /\ ecb_response.xml /\ ecb_response.values = <<>>

\* C2: when the series of the monthly or daily window has no observation,
\* the run ends with NoDataAvailable, never with an indexing fault
C2_EmptySeriesIsNoDataAvailable ==
    (prog = "Two" /\ EmptySeries) =>
        /\ pc = "done"
        /\ result = Raised("NoDataAvailable")
        /\ result.exc # "IndexError"

\* C4 as stated: a run of the financial pipeline that fails has output no
\* line of the report
C4_FailingRunPrintsNothing ==
    (prog = "Two" /\ result.kind = "raise") => printed = <<>>

\* C4 amended: the stages run in the order ticker, monthly, daily, one GET
\* each; a failure ends the run at the failing stage, and the lines output
\* are those of the stages before it, in report order, so that the last line
\* (BTC_GBP) is output by no failing run; a run that has not failed has
\* output the line of every stage it has run
C4_FailingRunPrintsEarlierStagesOnly ==
    prog = "Two" =>
        /\ IsPrefixOf(stages, FinStages)
        /\ Len(gets) = Len(stages)
        /\ result.kind = "raise" =>
              /\ pc = "done"
              /\ stages # <<>>
              /\ PrintedLabels = SubSeq(FinLabels, 1, Len(stages) - 1)
        /\ result.kind # "raise" =>
              PrintedLabels = SubSeq(FinLabels, 1, Len(stages))

C4_FailedAfterTwoLines ==
    /\ prog = "Two" /\ pc = "done" /\ result.kind = "raise"
    /\ stages = FinStages
    /\ PrintedLabels = <<"BTC_EUR", "EUR_GBP">>

\* the windows read off the UTC calendar of the clock instant
UtcDate(t) == strftime(gmtime(t))
PrevMonthIndex(c) == c.y * 12 + c.m - 2
UtcPrevMonth(t) ==
    ZeroPad(PrevMonthIndex(CivilFromDays(FloorDiv(t, 86400))) \div 12, 4)
      \o <<"-">>
      \o ZeroPad((PrevMonthIndex(CivilFromDays(FloorDiv(t, 86400))) % 12) + 1, 2)

\* C9: a page run issues at most one GET, exactly one when the URL is valid
\* and none when it is not; a financial run issues no GET after a failed
\* one, and a successful one has issued exactly the ticker GET, the monthly
\* GET for (previous month, previous month) and the daily GET for (ten days
\* ago, today), in that order
C9_OneAttemptPerStage ==
    /\ prog = "One" =>
          /\ Len(gets) <= 1
          /\ ValidationFailed => gets = <<>>
          /\ (pc = "done" /\ ~ValidationFailed) => Len(gets) = 1
    /\ prog = "Two" =>
          /\ Len(gets) <= 3
          /\ result.kind = "raise" => (pc = "done" /\ Len(gets) = Len(stages))
          /\ result = Returned("None", 0) =>
                gets = << BITCOIN_TICKER,
                          QueryUrl(FREQUENCY_MONTHLY, UtcPrevMonth(now), UtcPrevMonth(now)),
                          QueryUrl(FREQUENCY_DAILY, UtcDate(now - 10 * 86400), UtcDate(now)) >>

\* C10: the start of the daily window, which _ten_days_ago computed, is the
\* UTC date of the instant 10 * 86400 seconds before the clock instant,
\* whatever the local time zone of the process is, and it is ten calendar
\* days before the end of the window, which _today computed
C10_TenDaysAgoIsUtcDate ==
    (prog = "Two" /\ Ran("daily")) =>
        /\ ecb_call.start = UtcDate(now - 10 * 86400)
        /\ ecb_call.start
             = strftime(StructTime(CivilFromDays(FloorDiv(now, 86400) - 10), 0))
        /\ ecb_call.end = UtcDate(now)

==========================================================================
